---- MODULE Spec2Model ----
(***************************************************************************)
(* Model of src/main.py: the POST /ask relay.  One inbound request is      *)
(* followed from the framework's schema validation through                 *)
(* validate_api_key, call_openrouter_api (headers, payload, the awaited    *)
(* client.post, status check, JSON extraction, the three except clauses)   *)
(* to the response the caller receives.                                    *)
(*                                                                         *)
(* Python strings that are only compared or concatenated (keys, questions, *)
(* messages) are TLA+ strings; the upstream answer text, which is          *)
(* stripped, is a sequence of one-character strings.  Optional[T] is <<>>  *)
(* for None and <<v>> for a value v.                                       *)
(***************************************************************************)
EXTENDS Integers, Sequences, FiniteSets, TLC

VARIABLES
    DEFAULT_API_KEY,  \* main.py:10, os.getenv result: None or a string
    pc,               \* position of the request-handling task
    request,          \* inbound body field `question` and X-API-Key header
    api_key,          \* local of ask_openai (line 95)
    headers,          \* local of call_openrouter_api (line 69)
    payload,          \* local of call_openrouter_api (line 70)
    outbound,         \* POSTs issued to the upstream, in order
    outcome,          \* what `await client.post(...)` produced
    relay,            \* the response the caller receives
    steps             \* history: handler steps entered, in order

vars == <<DEFAULT_API_KEY, pc, request, api_key, headers, payload,
          outbound, outcome, relay, steps>>

---------------------------------------------------------------------------
(* Bounds of the model *)

\* longest upstream answer text
MaxLen == 3
\* number of completions following choices[0] in the upstream body
MaxExtraChoices == 1

---------------------------------------------------------------------------
(* Values *)

None == <<>>
Some(v) == <<v>>

OPENROUTER_API_URL == "https://openrouter.ai/api/v1/chat/completions"

\* characters that Python's str.strip() removes (the ASCII ones used here)
Whitespace == {" ", "\t", "\n"}
\* characters of an upstream answer
Chars == {" ", "\n", "a"}

RECURSIVE StringsUpTo(_)
StringsUpTo(n) ==
    IF n = 0 THEN {<<>>}
    ELSE LET shorter == StringsUpTo(n - 1)
         IN  shorter \cup {Append(s, c) : s \in shorter, c \in Chars}

Contents == StringsUpTo(MaxLen)

\* inbound values
HeaderValues == {None, Some(""), Some("k1")}
DefaultValues == {None, Some(""), Some("d0")}
QuestionValues == {None, Some(""), Some("hi")}

\* upstream status codes
Statuses == {200, 201, 302, 400, 401, 402, 404, 429, 500, 502}

---------------------------------------------------------------------------
(* JSON bodies of the upstream reply.  An object is the set of keys it has *)
(* plus the values under them; a value under an absent key is a filler.    *)

NullContent == [type |-> "null", s |-> <<>>]
StrContent(s) == [type |-> "str", s |-> s]

NoMessage == [keys |-> {}, content |-> NullContent]
MessageOf(c) == [keys |-> {"content"}, content |-> c]

ChoiceNoMessage == [keys |-> {}, message |-> NoMessage]
ChoiceOf(m) == [keys |-> {"message"}, message |-> m]

FirstChoices ==
    {ChoiceNoMessage, ChoiceOf(NoMessage), ChoiceOf(MessageOf(NullContent))}
    \cup {ChoiceOf(MessageOf(StrContent(s))) : s \in Contents}

FillerChoice == ChoiceOf(MessageOf(StrContent(<<"a">>)))

ChoiceLists ==
    {<<>>} \cup
    {<<c>> \o [i \in 1..k |-> FillerChoice] :
        c \in FirstChoices, k \in 0..MaxExtraChoices}

InvalidJson == [valid |-> FALSE, keys |-> {}, choices |-> <<>>]
BodyNoChoices == [valid |-> TRUE, keys |-> {}, choices |-> <<>>]
BodyOf(cs) == [valid |-> TRUE, keys |-> {"choices"}, choices |-> cs]

Bodies == {InvalidJson, BodyNoChoices} \cup {BodyOf(cs) : cs \in ChoiceLists}

\* the body has choices[0].message.content and it is a string
WellFormed(b) ==
    /\ b.valid
    /\ "choices" \in b.keys
    /\ Len(b.choices) > 0
    /\ "message" \in b.choices[1].keys
    /\ "content" \in b.choices[1].message.keys
    /\ b.choices[1].message.content.type = "str"

---------------------------------------------------------------------------
(* Exceptions.  `str` is what str(e) gives, used by line 87.               *)

NoExc == [type |-> "", status |-> 0, message |-> "", str |-> ""]

Exc(type, text) == [type |-> type, status |-> 0, message |-> "", str |-> text]

\* fastapi.HTTPException(status_code=..., detail={"message": ...});
\* str(e) is "<status_code>: <detail>"
HTTPException(status_code, message) ==
    [type |-> "HTTPException", status |-> status_code, message |-> message,
     str |-> ToString(status_code) \o ": {'message': '" \o message \o "'}"]

\* direct base class of each exception class that can reach lines 82-87
BaseClass(cls) ==
    CASE cls \in {"ConnectTimeout", "ReadTimeout", "WriteTimeout", "PoolTimeout"}
            -> "TimeoutException"
      [] cls \in {"ConnectError", "ReadError"} -> "NetworkError"
      [] cls \in {"RemoteProtocolError", "LocalProtocolError"} -> "ProtocolError"
      [] cls \in {"TimeoutException", "NetworkError", "ProtocolError"}
            -> "TransportError"
      [] cls = "TransportError" -> "RequestError"
      [] cls = "RequestError" -> "HTTPError"
      [] cls \in {"KeyError", "IndexError"} -> "LookupError"
      [] cls = "JSONDecodeError" -> "ValueError"
      [] cls \in {"HTTPError", "HTTPException", "LookupError", "ValueError",
                  "AttributeError", "RuntimeError"} -> "Exception"
      [] OTHER -> ""

RECURSIVE IsInstance(_, _)
IsInstance(type, cls) ==
    IF type = "" THEN FALSE
    ELSE IF type = cls THEN TRUE
    ELSE IsInstance(BaseClass(type), cls)

\* exceptions `await client.post(...)` can raise
PostExceptionTypes ==
    {"ConnectTimeout", "ReadTimeout", "WriteTimeout", "PoolTimeout",
     "ConnectError", "ReadError", "RemoteProtocolError", "LocalProtocolError",
     "RuntimeError"}

\* result of a function call: a returned value or a raised exception
Returned(v) == [exc |-> NoExc, value |-> v]
Raised(e) == [exc |-> e, value |-> <<>>]
HasRaised(r) == r.exc # NoExc

Outcomes ==
    {[kind |-> "response", status |-> s, body |-> b, exc |-> NoExc] :
        s \in Statuses, b \in Bodies}
    \cup
    {[kind |-> "exception", status |-> 0, body |-> InvalidJson,
      exc |-> Exc(t, t)] : t \in PostExceptionTypes}

---------------------------------------------------------------------------
(* The functions of main.py *)

\* truth value of an Optional[str]: None and "" are falsy
Truthy(opt) == opt # None /\ opt[1] # ""

\* Python's `a or b`
Or(a, b) == IF Truthy(a) THEN a ELSE b

\* pydantic: `question: str` is required; any string, also "", is accepted
QuestionRequestValid(question) == question # None

\* variant: the `if not api_key` check is missing
validate_api_key_Unchecked(x_api_key, default) ==
    LET key == Or(x_api_key, default)
    IN  Returned(IF key = None THEN "" ELSE key[1])

\* variant: the operands of `or` are exchanged
validate_api_key_DefaultFirst(x_api_key, default) ==
    LET key == Or(default, x_api_key)
    IN  IF ~Truthy(key)
        THEN Raised(HTTPException(401, "API Key required"))
        ELSE Returned(key[1])

validate_api_key(x_api_key, default) ==
    LET key == Or(x_api_key, default)
    IN  IF ~Truthy(key)
        THEN Raised(HTTPException(401, "API Key required"))
        ELSE Returned(key[1])

\* variant: a literal where the parameter belongs
create_request_payload_Literal(question) ==
    [model |-> "openai/gpt-3.5-turbo",
     messages |-> <<[role |-> "user", content |-> "question"]>>,
     max_tokens |-> 1000,
     temperature |-> "0.7"]

create_request_payload(question) ==
    [model |-> "openai/gpt-3.5-turbo",
     messages |-> <<[role |-> "user", content |-> question]>>,
     max_tokens |-> 1000,
     temperature |-> "0.7"]

create_headers(key) ==
    [Authorization |-> "Bearer " \o key,
     ContentType |-> "application/json"]

error_map ==
    [s \in {401, 402, 429} |->
        IF s = 429 THEN "Rate limit exceeded" ELSE "API Key required"]

\* always raises; the value is the exception raised
handle_response_error(status_code) ==
    IF status_code \in DOMAIN error_map
    THEN HTTPException(status_code, error_map[status_code])
    ELSE HTTPException(status_code,
                       "OpenAI API error: " \o ToString(status_code))

RECURSIVE lstrip(_)
lstrip(s) ==
    IF s = <<>> THEN s
    ELSE IF Head(s) \in Whitespace THEN lstrip(Tail(s)) ELSE s

RECURSIVE rstrip(_)
rstrip(s) ==
    IF s = <<>> THEN s
    ELSE IF s[Len(s)] \in Whitespace THEN rstrip(SubSeq(s, 1, Len(s) - 1))
    ELSE s

\* variant: only the left end is stripped
strip_LeftOnly(s) == lstrip(s)

strip(s) == rstrip(lstrip(s))

\* json_data['choices'][0]['message']['content'].strip(), left to right
Subscripts(json_data) ==
    IF "choices" \notin json_data.keys THEN Raised(Exc("KeyError", "'choices'"))
    ELSE IF Len(json_data.choices) = 0
    THEN Raised(Exc("IndexError", "list index out of range"))
    ELSE LET choice == json_data.choices[1]
         IN  IF "message" \notin choice.keys
             THEN Raised(Exc("KeyError", "'message'"))
             ELSE IF "content" \notin choice.message.keys
             THEN Raised(Exc("KeyError", "'content'"))
             ELSE IF choice.message.content.type # "str"
             THEN Raised(Exc("AttributeError",
                       "'NoneType' object has no attribute 'strip'"))
             ELSE Returned(strip(choice.message.content.s))

extract_response_content(json_data) ==
    LET r == Subscripts(json_data)
    IN  IF HasRaised(r) /\ IsInstance(r.exc.type, "KeyError")
        THEN Raised(HTTPException(500, "Unexpected response format"))
        ELSE r

\* variant: the status is not looked at
is_success_Always(status_code) == TRUE

\* httpx Response.is_success
is_success(status_code) == status_code >= 200 /\ status_code <= 299

\* httpx Response.json()
response_json(body) ==
    IF body.valid THEN Returned(<<>>)
    ELSE Raised(Exc("JSONDecodeError",
                    "Expecting value: line 1 column 1 (char 0)"))

\* the body of the try statement, given what client.post produced
TryBody(o) ==
    IF o.kind = "exception" THEN Raised(o.exc)
    ELSE IF ~is_success(o.status) THEN Raised(handle_response_error(o.status))
    ELSE IF HasRaised(response_json(o.body)) THEN response_json(o.body)
    ELSE extract_response_content(o.body)

\* variant: the first two except clauses exchanged
ExceptClauses_Swapped(e) ==
    << [cls |-> "RequestError",
        raise |-> HTTPException(503, "Connection error")],
       [cls |-> "TimeoutException",
        raise |-> HTTPException(504, "Request timeout")],
       [cls |-> "Exception",
        raise |-> HTTPException(500, "Internal server error: " \o e.str)] >>

\* the except clauses in source order: class caught, exception raised instead
ExceptClauses(e) ==
    << [cls |-> "TimeoutException",
        raise |-> HTTPException(504, "Request timeout")],
       [cls |-> "RequestError",
        raise |-> HTTPException(503, "Connection error")],
       [cls |-> "Exception",
        raise |-> HTTPException(500, "Internal server error: " \o e.str)] >>

\* Python picks the first clause whose class the exception is an instance of
Except(e) ==
    LET clauses == ExceptClauses(e)
        matching == {i \in DOMAIN clauses : IsInstance(e.type, clauses[i].cls)}
    IN  IF matching = {} THEN e
        ELSE clauses[CHOOSE i \in matching : \A j \in matching : i <= j].raise

\* call_openrouter_api from the point where client.post has produced o
call_openrouter_api(o) ==
    LET r == TryBody(o)
    IN  IF HasRaised(r) THEN Raised(Except(r.exc)) ELSE r

---------------------------------------------------------------------------
(* Responses the caller receives *)

NoResponse ==
    [kind |-> "none", status |-> 0, response |-> None, message |-> None]

\* FastAPI's answer to a body that fails the QuestionRequest schema
ValidationError ==
    [kind |-> "validation_error", status |-> 422, response |-> None,
     message |-> None]

\* FastAPI's rendering of a raised HTTPException: {"detail": {"message": m}}
ErrorResponse(e) ==
    [kind |-> "error", status |-> e.status, response |-> None,
     message |-> Some(e.message)]

\* return SuccessResponse(response=...): 200 {"response": text}
SuccessResponse(text) ==
    [kind |-> "success", status |-> 200, response |-> Some(text),
     message |-> None]

---------------------------------------------------------------------------
(* The state machine *)

Init ==
    /\ DEFAULT_API_KEY \in DefaultValues
    /\ pc = "idle"
    /\ request = [question |-> None, x_api_key |-> None]
    /\ api_key = None
    /\ headers = None
    /\ payload = None
    /\ outbound = <<>>
    /\ outcome = None
    /\ relay = NoResponse
    /\ steps = <<>>

\* POST /ask arrives; the framework validates the body against QuestionRequest
\* and calls ask_openai only if it passes
Receive(question, x_api_key) ==
    /\ pc = "idle"
    /\ request' = [question |-> question, x_api_key |-> x_api_key]
    /\ IF QuestionRequestValid(question)
       THEN /\ pc' = "handler"
            /\ relay' = relay
       ELSE /\ pc' = "done"
            /\ relay' = ValidationError
    /\ UNCHANGED <<DEFAULT_API_KEY, api_key, headers, payload, outbound,
                   outcome, steps>>

\* line 95
ResolveCredential ==
    /\ pc = "handler"
    /\ steps' = Append(steps, "resolve")
    /\ LET r == validate_api_key(request.x_api_key, DEFAULT_API_KEY)
       IN  IF HasRaised(r)
           THEN /\ relay' = ErrorResponse(r.exc)
                /\ pc' = "done"
                /\ api_key' = api_key
           ELSE /\ api_key' = Some(r.value)
                /\ pc' = "resolved"
                /\ relay' = relay
    /\ UNCHANGED <<DEFAULT_API_KEY, request, headers, payload, outbound,
                   outcome>>

\* lines 69-70
BuildRequest ==
    /\ pc = "resolved"
    /\ steps' = Append(steps, "build")
    /\ headers' = Some(create_headers(api_key[1]))
    /\ payload' = Some(create_request_payload(request.question[1]))
    /\ pc' = "built"
    /\ UNCHANGED <<DEFAULT_API_KEY, request, api_key, outbound, outcome,
                   relay>>

\* lines 73-74: the POST leaves and the task suspends
Post ==
    /\ pc = "built"
    /\ steps' = Append(steps, "call")
    /\ outbound' = Append(outbound, [url |-> OPENROUTER_API_URL,
                                     headers |-> headers[1],
                                     json |-> payload[1]])
    /\ pc' = "awaiting"
    /\ UNCHANGED <<DEFAULT_API_KEY, request, api_key, headers, payload,
                   outcome, relay>>

\* line 74: the await completes with a response or an exception
PostReturns(o) ==
    /\ pc = "awaiting"
    /\ outcome' = Some(o)
    /\ pc' = "returned"
    /\ UNCHANGED <<DEFAULT_API_KEY, request, api_key, headers, payload,
                   outbound, relay, steps>>

\* variant: a failed call is issued once more
Complete_Retry ==
    /\ pc = "returned"
    /\ steps' = IF outcome[1].kind = "response"
                THEN Append(steps, "translate") ELSE steps
    /\ LET r == call_openrouter_api(outcome[1])
       IN  IF HasRaised(r) /\ Len(outbound) < 2
           THEN /\ pc' = "built"
                /\ relay' = relay
           ELSE /\ pc' = "done"
                /\ relay' = IF HasRaised(r) THEN ErrorResponse(r.exc)
                            ELSE SuccessResponse(r.value)
    /\ UNCHANGED <<DEFAULT_API_KEY, request, api_key, headers, payload,
                   outbound, outcome>>

\* lines 76-87 and 97
Complete ==
    /\ pc = "returned"
    /\ steps' = IF outcome[1].kind = "response"
                THEN Append(steps, "translate") ELSE steps
    /\ LET r == call_openrouter_api(outcome[1])
       IN  relay' = IF HasRaised(r) THEN ErrorResponse(r.exc)
                    ELSE SuccessResponse(r.value)
    /\ pc' = "done"
    /\ UNCHANGED <<DEFAULT_API_KEY, request, api_key, headers, payload,
                   outbound, outcome>>

Next ==
    \/ \E q \in QuestionValues, h \in HeaderValues : Receive(q, h)
    \/ ResolveCredential
    \/ BuildRequest
    \/ Post
    \/ \E o \in Outcomes : PostReturns(o)
    \/ Complete

Spec == Init /\ [][Next]_vars

---------------------------------------------------------------------------
(* Properties *)

Done == pc = "done"
Accepted == pc # "idle" /\ request.question # None
GotResponse == outcome # None /\ outcome[1].kind = "response"
GotException == outcome # None /\ outcome[1].kind = "exception"
Is2xx(n) == n \in 200..299
NoCredential ==
    /\ request.x_api_key \in {None, Some("")}
    /\ DEFAULT_API_KEY \in {None, Some("")}
ErrorIs(status, message) ==
    /\ relay.kind = "error"
    /\ relay.status = status
    /\ relay.message = Some(message)

\* t is s without its leading and trailing whitespace, and otherwise s
IsTrimOf(t, s) ==
    /\ \E i, j \in 0..Len(s) :
        /\ i + j <= Len(s)
        /\ \A k \in 1..i : s[k] \in Whitespace
        /\ \A k \in (Len(s) - j + 1)..Len(s) : s[k] \in Whitespace
        /\ t = SubSeq(s, i + 1, Len(s) - j)
    /\ t = <<>> \/ (t[1] \notin Whitespace /\ t[Len(t)] \notin Whitespace)

StepOrder == <<"resolve", "build", "call", "translate">>
IsPrefix(a, b) == Len(a) <= Len(b) /\ a = SubSeq(b, 1, Len(a))

\* C1: a request without X-API-Key (absent or empty) and without a default
\* credential is answered 401 "API Key required", and at no point of its
\* handling has an outbound call been made or the call step been entered.
C1_NoKeyNoCall ==
    (Accepted /\ NoCredential) =>
        /\ outbound = <<>>
        /\ pc \in {"handler", "done"}
        /\ \A i \in DOMAIN steps : steps[i] = "resolve"
        /\ Done => ErrorIs(401, "API Key required")

C1_Witness ==
    /\ Accepted /\ NoCredential /\ Done
    /\ request.x_api_key = Some("")
    /\ relay.status = 401

\* C2: when the outbound call returns a 2xx status and a body with a string
\* choices[0].message.content, the caller gets 200 and `response` is that
\* content without its leading and trailing whitespace, nothing else changed.
C2_SuccessTrimmed ==
    (Done /\ GotResponse /\ Is2xx(outcome[1].status)
          /\ WellFormed(outcome[1].body)) =>
        /\ relay.kind = "success"
        /\ relay.status = 200
        /\ relay.response # None
        /\ IsTrimOf(relay.response[1],
                    outcome[1].body.choices[1].message.content.s)

C2_Witness ==
    /\ Done /\ GotResponse /\ outcome[1].status = 201
    /\ WellFormed(outcome[1].body)
    /\ outcome[1].body.choices[1].message.content.s = <<" ", "a", "\n">>
    /\ relay.response = Some(<<"a">>)

\* C3: when the upstream answers 429 the caller receives 429 "Rate limit
\* exceeded"; when it answers 401 or 402 the caller receives that status
\* and "API Key required".
C3_UpstreamKeyAndRateErrors ==
    (Done /\ GotResponse /\ outcome[1].status \in {401, 402, 429}) =>
        ErrorIs(outcome[1].status,
                IF outcome[1].status = 429 THEN "Rate limit exceeded"
                ELSE "API Key required")

\* C4: for every other non-2xx upstream status s the caller receives status s
\* and the message "OpenAI API error: <s>".
C4_UpstreamStatusPassThrough ==
    (Done /\ GotResponse /\ ~Is2xx(outcome[1].status)
          /\ outcome[1].status \notin {401, 402, 429}) =>
        ErrorIs(outcome[1].status,
                "OpenAI API error: " \o ToString(outcome[1].status))

\* C5: when the upstream answers 2xx with JSON that lacks `choices`, has an
\* empty `choices`, or lacks `message` or `content` in the first choice, the
\* caller receives 500 with exactly "Unexpected response format", never 200.
C5_UnexpectedFormat ==
    (Done /\ GotResponse /\ Is2xx(outcome[1].status) /\ outcome[1].body.valid
          /\ \/ "choices" \notin outcome[1].body.keys
             \/ Len(outcome[1].body.choices) = 0
             \/ "message" \notin outcome[1].body.choices[1].keys
             \/ "content" \notin outcome[1].body.choices[1].message.keys) =>
        ErrorIs(500, "Unexpected response format")

\* C6: when the outbound call times out the caller receives 504 "Request
\* timeout" and not 503; for every other transport failure the caller
\* receives 503 "Connection error".
C6_TransportFailures ==
    (Done /\ GotException) =>
        /\ outcome[1].exc.type \in
                {"ConnectTimeout", "ReadTimeout", "WriteTimeout", "PoolTimeout"}
            => ErrorIs(504, "Request timeout")
        /\ outcome[1].exc.type \in
                {"ConnectError", "ReadError", "RemoteProtocolError",
                 "LocalProtocolError"}
            => ErrorIs(503, "Connection error")

C6_Witness ==
    /\ Done /\ GotException
    /\ outcome[1].exc.type = "ReadTimeout"
    /\ relay.status = 504

\* C7: the credential is the X-API-Key value when that is present and
\* non-empty, also when a default is configured, and the default otherwise;
\* the outbound Authorization header is "Bearer " followed by it.
C7_CredentialChoice ==
    LET cred == IF request.x_api_key # None /\ request.x_api_key[1] # ""
                THEN request.x_api_key ELSE DEFAULT_API_KEY
    IN  /\ api_key # None => api_key = cred
        /\ \A i \in DOMAIN outbound :
            /\ cred # None
            /\ outbound[i].headers.Authorization = "Bearer " \o cred[1]

C7_Witness ==
    /\ outbound # <<>>
    /\ request.x_api_key = Some("k1")
    /\ DEFAULT_API_KEY = Some("d0")
    /\ outbound[1].headers.Authorization = "Bearer k1"

\* C8: a handled request ends with exactly one of a 200 success body and an
\* error with a status and a message, and a 2xx response is only sent when
\* the answer was extracted from a 2xx upstream reply.
C8_ExactlyOneOutcome ==
    /\ (Done /\ Accepted) =>
        /\ (relay.response # None) # (relay.message # None)
        /\ relay.response # None => relay.kind = "success" /\ relay.status = 200
        /\ relay.message # None => relay.kind = "error" /\ ~Is2xx(relay.status)
    /\ Is2xx(relay.status) =>
        /\ Done
        /\ relay.response # None
        /\ GotResponse
        /\ Is2xx(outcome[1].status)
        /\ WellFormed(outcome[1].body)

C8_Witness ==
    /\ Done /\ Accepted
    /\ relay.kind = "success"
    /\ outcome[1].status = 200

\* C9: at most one outbound POST is issued per request, the steps run in the
\* order resolve, build, call, translate, and a failure ends the handling at
\* once: no retry and no further step.
C9_SingleCallNoRetry ==
    /\ Len(outbound) <= 1
    /\ IsPrefix(steps, StepOrder)
    /\ relay # NoResponse => Done
    /\ outcome # None => pc \in {"returned", "done"} /\ Len(outbound) = 1
    /\ (Done /\ relay.kind = "error") =>
        \/ steps = <<"resolve">> /\ outbound = <<>>
        \/ steps = <<"resolve", "build", "call">> /\ GotException
        \/ steps = StepOrder /\ GotResponse

C9_Witness ==
    /\ Done
    /\ relay.kind = "error"
    /\ GotResponse /\ outcome[1].status = 502
    /\ Len(outbound) = 1
    /\ steps = StepOrder

\* C10 as stated: a request with an empty question is rejected at validation
\* and every question sent to the upstream is non-empty.
C10_QuestionNonEmpty ==
    /\ request.question = Some("") => steps = <<>> /\ outbound = <<>>
    /\ \A i \in DOMAIN outbound : outbound[i].json.messages[1].content # ""

\* C10 amended: a request without a `question` is rejected at validation and
\* never reaches credential resolution or the outbound call; the question
\* sent to the upstream is the caller's string unchanged, which may be empty.
C10_QuestionPresent ==
    /\ (pc # "idle" /\ request.question = None) =>
        /\ Done
        /\ relay = ValidationError
        /\ steps = <<>>
        /\ outbound = <<>>
    /\ \A i \in DOMAIN outbound :
        /\ request.question # None
        /\ outbound[i].json.messages[1].content = request.question[1]

C10_Witness ==
    /\ outbound # <<>>
    /\ request.question = Some("")
    /\ outbound[1].json.messages[1].content = ""

====
